---- MODULE Spec2Model ----
(***************************************************************************)
(* Recipe Extractor API (main.py): the POST /extract handler               *)
(* extract_recipe, with fetch_html, clean_html, the schema-validated model *)
(* call and the two except clauses, for several requests in flight.        *)
(*                                                                         *)
(* Strings whose content does not matter are modelled by their length      *)
(* (page markup, cleaned text, prompt); an Optional[T] value is the empty  *)
(* tuple (None) or a one-element tuple; an error string built by an        *)
(* f-string is the pair of its literal prefix and the interpolated         *)
(* message.                                                                *)
(***************************************************************************)
EXTENDS Integers, Sequences, FiniteSets, TLC

\* ------------------------------------------------------------------ bounds

\* Requests in flight at once.
NumRequests == 2

\* Half-width of the windows of page lengths around 0 and around the
\* truncation budget, for the single-request specification.
MaxPad == 40

\* ------------------------------------------------------- program constants

\* Variant: max_retries=3.
max_retries_three == 2 + 1

\* max_retries=2 in the model call.
max_retries == 2

\* cleaned_content[:15000]
TruncationBudget == 15000

\* len("\n\n<!-- RAW HTML FOR IMAGES -->\n")
SeparatorLen == 31

\* len("Extract the recipe data from this webpage content:\n\n")
PromptPrefixLen == 52

FetchPrefix == "Failed to fetch URL: "

ExtractPrefix == "Failed to extract recipe: "

\* ------------------------------------------------------------------ values

Requests == 1..NumRequests

None == <<>>

Some(x) == <<x>>

\* Well-formed URLs a client may post.
URLs == {"https://example.com/cookie-recipe", "https://example.org/pie"}

\* A source_url the model may put in its output.
ModelUrl == "https://model.invalid/guess"

Stages == <<"Received", "Fetching", "Normalizing", "Extracting", "Responding">>

\* A page: the length of its markup and of the text BeautifulSoup gets from it.
PageOf(h, t) == [html |-> h, text |-> t]

\* The page each URL serves in the concurrent specification: one far over the
\* truncation budget, one empty.
PageAt(u) == IF u = "https://example.com/cookie-recipe" THEN PageOf(20000, 9000) ELSE PageOf(0, 0)

PageLens == (0..MaxPad) \cup ((TruncationBudget - SeparatorLen - MaxPad)..(TruncationBudget + MaxPad))

\* Pages served in the single-request specification.
PagesWide == {PageOf(h, t) : h \in PageLens, t \in {0}} \cup {PageOf(h, h \div 2) : h \in PageLens}

VARIABLES pc, url, page, html, userMsg, outputs, exc, response, trace

vars == <<pc, url, page, html, userMsg, outputs, exc, response, trace>>

\* ----------------------------------------------------------- fetch_html

\* What client.get / raise_for_status raise: a non-2xx final status, a
\* connection-level failure (both httpx.HTTPError), or an error httpx raises
\* outside that hierarchy (httpx.InvalidURL derives from Exception directly).
FetchExceptions ==
    { [type |-> "HTTPStatusError", msg |-> "Client error '404 Not Found'"],
      [type |-> "ConnectError",    msg |-> "[Errno 111] Connection refused"],
      [type |-> "InvalidURL",      msg |-> "URL too long"] }

\* Variant: except httpx.HTTPStatusError.
IsHTTPErrorStatusOnly(type) == type = "HTTPStatusError"

\* isinstance(e, httpx.HTTPError), as the first except clause tests it.
IsHTTPError(type) == type \in {"HTTPStatusError", "ConnectError"}

\* ----------------------------------------------------------- clean_html

\* An error BeautifulSoup may raise on markup its parser rejects.
CleanExceptions == { [type |-> "ParserRejectedMarkup", msg |-> "markup rejected"] }

\* f"{text}\n\n<!-- RAW HTML FOR IMAGES -->\n{html}", as a length.
clean_html(p) == p.text + SeparatorLen + p.html

\* ------------------------------------------------- the user message

\* Variant: no slice.
TruncateNone(n) == n

\* s[:15000], as a length.
Truncate(n) == IF n > TruncationBudget THEN TruncationBudget ELSE n

\* f"Extract the recipe data from this webpage content:\n\n{cleaned_content[:15000]}":
\* the literal prefix and the page-content part.
UserMessage(cleaned) == [prefix |-> PromptPrefixLen, content |-> Truncate(cleaned)]

MessageLen(m) == m.prefix + m.content

\* ------------------------------------------------------ the Recipe schema

MinimalOutput ==
    [ title |-> "Cookies",
      ingredients |-> << [name |-> "flour"] >>,
      steps |-> << [step_number |-> 1, instruction |-> "Bake."] >> ]

\* The minimal recipe plus a source_url of the model's own.
UrlOutput ==
    [ title |-> "Cookies",
      ingredients |-> << [name |-> "flour"] >>,
      steps |-> << [step_number |-> 1, instruction |-> "Bake."] >>,
      source_url |-> ModelUrl ]

\* A recipe with tags and a source_url but no title.
UntitledOutput ==
    [ ingredients |-> << [name |-> "flour"] >>,
      steps |-> << [step_number |-> 1, instruction |-> "Bake."] >>,
      tags |-> << "dessert" >>,
      source_url |-> ModelUrl ]

\* What the model may return on one attempt.
ModelOutputs == {MinimalOutput, UrlOutput, UntitledOutput}

\* Errors of the model service itself: a rejected credential, a transport
\* failure of the call (the OpenAI client raises its own exception classes,
\* none of them an httpx.HTTPError).
ServiceExceptions ==
    { [type |-> "AuthenticationError", msg |-> "Incorrect API key provided"],
      [type |-> "APIConnectionError",  msg |-> "Connection error."] }

\* The fields of Recipe declared without a default.
RequiredFields == <<"title", "ingredients", "steps", "source_url">>

MissingFields(o) == SelectSeq(RequiredFields, LAMBDA f : f \notin DOMAIN o)

\* Recipe.model_validate accepts the output.
Validate(o) == MissingFields(o) = <<>>

\* The validation diagnostic: the first missing field.
ValidationMsg(o) == Head(MissingFields(o)) \o ": Field required"

Opt(o, f) == IF f \in DOMAIN o THEN Some(o[f]) ELSE None

Default(o, f, d) == IF f \in DOMAIN o THEN o[f] ELSE d

Ingredient(i) ==
    [ name |-> i.name, amount |-> Opt(i, "amount"), unit |-> Opt(i, "unit"),
      notes |-> Opt(i, "notes") ]

RecipeStep(s) ==
    [ step_number |-> s.step_number, instruction |-> s.instruction,
      duration |-> Opt(s, "duration") ]

\* The Recipe instance built from a validated output: optional fields default
\* to None, image_urls and tags to the empty list.
Recipe(o) ==
    [ title |-> o.title,
      description |-> Opt(o, "description"),
      prep_time |-> Opt(o, "prep_time"),
      cook_time |-> Opt(o, "cook_time"),
      total_time |-> Opt(o, "total_time"),
      servings |-> Opt(o, "servings"),
      difficulty |-> Opt(o, "difficulty"),
      cuisine |-> Opt(o, "cuisine"),
      course |-> Opt(o, "course"),
      ingredients |-> [k \in DOMAIN o.ingredients |-> Ingredient(o.ingredients[k])],
      steps |-> [k \in DOMAIN o.steps |-> RecipeStep(o.steps[k])],
      image_urls |-> Default(o, "image_urls", <<>>),
      nutrition_info |-> Opt(o, "nutrition_info"),
      tags |-> Default(o, "tags", <<>>),
      author |-> Opt(o, "author"),
      source_url |-> o.source_url ]

\* ------------------------------------------------------- extract_recipe

\* Variant: the URL kept in a module-level variable that whichever request is
\* at the model call has set.
RequestUrlShared(r) ==
    IF \E q \in Requests : q # r /\ pc[q] = "Extracting"
    THEN url[CHOOSE q \in Requests : q # r /\ pc[q] = "Extracting"]
    ELSE url[r]

\* request.url
RequestUrl(r) == url[r]

\* Variant: the model's source_url is kept.
KeepModelSource(recipe, u) == recipe

\* recipe.source_url = request.url
OverwriteSource(recipe, u) == [recipe EXCEPT !.source_url = u]

\* RecipeResponse(success=True, recipe=recipe)
SuccessResponse(recipe) == [success |-> TRUE, recipe |-> Some(recipe), error |-> None]

\* RecipeResponse(success=False, error=f"{prefix}{str(e)}")
FailureResponse(prefix, e) ==
    [success |-> FALSE, recipe |-> None, error |-> Some([prefix |-> prefix, msg |-> e.msg])]

\* Variant: no except Exception clause.
ExceptClausesFetchOnly(e) ==
    IF IsHTTPError(e.type) THEN Some(FailureResponse(FetchPrefix, e)) ELSE None

\* Variant: one clause, with the fetch message, for every exception.
ExceptClausesOneMessage(e) == Some(FailureResponse(FetchPrefix, e))

\* Variant: the failure response also carries a recipe.
ExceptClausesWithRecipe(e) ==
    Some([FailureResponse(ExtractPrefix, e) EXCEPT !.recipe = Some(Recipe(UrlOutput))])

\* The except clauses, tried in order: the response returned, or None when no
\* clause matches and the exception leaves the handler.
ExceptClauses(e) ==
    IF IsHTTPError(e.type)
    THEN Some(FailureResponse(FetchPrefix, e))
    ELSE Some(FailureResponse(ExtractPrefix, e))

StageIndex(s) == CHOOSE k \in DOMAIN Stages : Stages[k] = s

\* Variant: the model call is made on the raw page, clean_html skipped.
NextStageSkipClean(s) == IF s = "Fetching" THEN "Extracting" ELSE Stages[StageIndex(s) + 1]

\* The statements of the try block run in order.
NextStage(s) == Stages[StageIndex(s) + 1]

\* Attempts the model call may make: the first and max_retries re-issues.
MaxAttempts == max_retries + 1

Enter(r, s) ==
    /\ pc' = [pc EXCEPT ![r] = s]
    /\ trace' = [trace EXCEPT ![r] = Append(@, s)]

\* An exception raised in the try block reaches the except clauses.
Raise(r, e) ==
    LET handled == ExceptClauses(e) IN
    /\ exc' = [exc EXCEPT ![r] = Some(e)]
    /\ response' = [response EXCEPT ![r] = handled]
    /\ Enter(r, IF handled = None THEN "Faulted" ELSE "Responding")

\* html_content = await fetch_html(str(request.url)): the call is made.
Begin(r) ==
    /\ pc[r] = "Received"
    /\ Enter(r, NextStage("Received"))
    /\ UNCHANGED <<url, page, html, userMsg, outputs, exc, response>>

\* fetch_html returns response.text of a 2xx response.
FetchReturn(r) ==
    /\ pc[r] = "Fetching"
    /\ html' = [html EXCEPT ![r] = Some(page[r])]
    /\ Enter(r, NextStage("Fetching"))
    /\ UNCHANGED <<url, page, userMsg, outputs, exc, response>>

\* fetch_html raises.
FetchRaise(r) ==
    /\ pc[r] = "Fetching"
    /\ \E e \in FetchExceptions : Raise(r, e)
    /\ UNCHANGED <<url, page, html, userMsg, outputs>>

\* cleaned_content = clean_html(html_content), and the messages of the model
\* call are built from it.
Normalize(r) ==
    /\ pc[r] = "Normalizing"
    /\ userMsg' = [userMsg EXCEPT ![r] = Some(UserMessage(clean_html(html[r][1])))]
    /\ Enter(r, NextStage("Normalizing"))
    /\ UNCHANGED <<url, page, html, outputs, exc, response>>

\* clean_html raises.
NormalizeRaise(r) ==
    /\ pc[r] = "Normalizing"
    /\ \E e \in CleanExceptions : Raise(r, e)
    /\ UNCHANGED <<url, page, html, userMsg, outputs>>

\* An attempt of the model call returns an output that validates: the source
\* URL is overwritten and the success response returned.
AttemptValid(r) ==
    /\ pc[r] = "Extracting"
    /\ Len(outputs[r]) < MaxAttempts
    /\ \E o \in ModelOutputs :
        /\ Validate(o)
        /\ outputs' = [outputs EXCEPT ![r] = Append(@, o)]
        /\ response' = [response EXCEPT ![r] =
                           Some(SuccessResponse(OverwriteSource(Recipe(o), RequestUrl(r))))]
    /\ Enter(r, NextStage("Extracting"))
    /\ UNCHANGED <<url, page, html, userMsg, exc>>

\* An attempt returns an output that fails validation and attempts are left:
\* the call is re-issued.
AttemptReask(r) ==
    /\ pc[r] = "Extracting"
    /\ Len(outputs[r]) + 1 < MaxAttempts
    /\ \E o \in ModelOutputs :
        /\ ~Validate(o)
        /\ outputs' = [outputs EXCEPT ![r] = Append(@, o)]
    /\ UNCHANGED <<pc, trace, url, page, html, userMsg, exc, response>>

\* The last allotted attempt fails validation: the call raises with the
\* validation diagnostic.
AttemptExhausted(r) ==
    /\ pc[r] = "Extracting"
    /\ Len(outputs[r]) + 1 = MaxAttempts
    /\ \E o \in ModelOutputs :
        /\ ~Validate(o)
        /\ outputs' = [outputs EXCEPT ![r] = Append(@, o)]
        /\ Raise(r, [type |-> "InstructorRetryException", msg |-> ValidationMsg(o)])
    /\ UNCHANGED <<url, page, html, userMsg>>

\* The model service fails on an attempt: the call raises, with no re-issue.
AttemptServiceError(r) ==
    /\ pc[r] = "Extracting"
    /\ Len(outputs[r]) < MaxAttempts
    /\ \E e \in ServiceExceptions : Raise(r, e)
    /\ UNCHANGED <<url, page, html, userMsg, outputs>>

Step(r) ==
    \/ Begin(r)
    \/ FetchReturn(r)
    \/ FetchRaise(r)
    \/ Normalize(r)
    \/ NormalizeRaise(r)
    \/ AttemptValid(r)
    \/ AttemptReask(r)
    \/ AttemptExhausted(r)
    \/ AttemptServiceError(r)

InitRequest ==
    /\ pc = [r \in Requests |-> "Received"]
    /\ url \in [Requests -> URLs]
    /\ html = [r \in Requests |-> None]
    /\ userMsg = [r \in Requests |-> None]
    /\ outputs = [r \in Requests |-> <<>>]
    /\ exc = [r \in Requests |-> None]
    /\ response = [r \in Requests |-> None]
    /\ trace = [r \in Requests |-> <<"Received">>]

\* Several requests in flight, their steps interleaved in every order.
Init == InitRequest /\ page = [r \in Requests |-> PageAt(url[r])]

Next == \E r \in Requests : Step(r)

Spec == Init /\ [][Next]_vars

\* One request followed alone, over pages of every length near the budget.
InitOne ==
    /\ InitRequest
    /\ \E p \in PagesWide : page = [r \in Requests |-> IF r = 1 THEN p ELSE PageOf(0, 0)]

NextOne == Step(1)

SpecOne == InitOne /\ [][NextOne]_vars

\* ------------------------------------------------------------ properties

Last(s) == s[Len(s)]

Responded(r) == response[r] # None

Succeeded(r) == Responded(r) /\ response[r][1].success

Failed(r) == Responded(r) /\ ~response[r][1].success

\* The stage in which the exception of a failed request was raised.
FailedAt(r) == trace[r][Len(trace[r]) - 1]

\* C1: the recipe of every success=true response carries the URL of its own
\* request as source_url, whatever source_url the model produced and whatever
\* page was fetched.
C1_SourceUrlIsRequestUrl ==
    \A r \in Requests : Succeeded(r) => response[r][1].recipe[1].source_url = url[r]

C1_Witness ==
    \E r \in Requests :
        /\ Succeeded(r)
        /\ Last(outputs[r]).source_url = ModelUrl
        /\ ModelUrl # url[r]
        /\ response[r][1].recipe[1].source_url = url[r]

\* C2: no exception leaves extract_recipe: an exception raised in any stage
\* (fetch, validation after all attempts, model service, anything else) ends
\* in a success=false response; a request without its response can always
\* take its next step and takes at most 8 of them, so it gets its response;
\* and a request that has its response takes no further step.
C2_AlwaysOneEnvelope ==
    \A r \in Requests :
        /\ pc[r] # "Faulted"
        /\ exc[r] # None => pc[r] = "Responding" /\ Failed(r)
        /\ pc[r] # "Responding" => ~Responded(r) /\ ENABLED Step(r)
        /\ pc[r] = "Responding" => Responded(r) /\ ~ENABLED Step(r)
        /\ Len(trace[r]) + Len(outputs[r]) <= 8

C2_Witness ==
    \E r \in Requests :
        /\ pc[r] = "Responding"
        /\ exc[r] # None
        /\ exc[r][1].type = "InstructorRetryException"
        /\ Failed(r)

\* C3: in every response exactly one of recipe and error is populated:
\* success=true has a recipe and no error, success=false an error and no
\* recipe.
C3_ExactlyOnePayload ==
    \A r \in Requests :
        Responded(r) =>
            LET resp == response[r][1] IN
            /\ resp.success => resp.recipe # None /\ resp.error = None
            /\ ~resp.success => resp.error # None /\ resp.recipe = None

C3_Witness ==
    \E r, q \in Requests :
        /\ Succeeded(r) /\ response[r][1].recipe # None /\ response[r][1].error = None
        /\ Failed(q) /\ response[q][1].error # None /\ response[q][1].recipe = None

\* C4: a page fetch that fails by a non-2xx final status or by a
\* connection-level failure ends in success=false with the error
\* "Failed to fetch URL: " followed by the transport's message.
C4_FetchFailurePrefix ==
    \A r \in Requests :
        (/\ exc[r] # None
         /\ FailedAt(r) = "Fetching"
         /\ exc[r][1].type \in {"HTTPStatusError", "ConnectError"})
        => /\ Failed(r)
           /\ response[r][1].error = Some([prefix |-> "Failed to fetch URL: ", msg |-> exc[r][1].msg])

C4_Witness ==
    \E r \in Requests :
        /\ exc[r] # None
        /\ exc[r][1].type = "ConnectError"
        /\ FailedAt(r) = "Fetching"
        /\ Failed(r)
        /\ response[r][1].error[1].prefix = FetchPrefix

\* C5: a request that fails in a stage other than the page fetch (model
\* service error, validation exhausted, unexpected error) ends in
\* success=false with the error "Failed to extract recipe: " followed by the
\* message, never with the fetch-failure prefix.
C5_ExtractFailurePrefix ==
    \A r \in Requests :
        (exc[r] # None /\ FailedAt(r) # "Fetching")
        => /\ Failed(r)
           /\ response[r][1].error = Some([prefix |-> "Failed to extract recipe: ", msg |-> exc[r][1].msg])
           /\ response[r][1].error[1].prefix # "Failed to fetch URL: "

C5_Witness ==
    \E r \in Requests :
        /\ exc[r] # None
        /\ exc[r][1].type = "APIConnectionError"
        /\ FailedAt(r) = "Extracting"
        /\ Failed(r)
        /\ response[r][1].error[1].prefix = ExtractPrefix

\* C6, as stated: the user message content passed to the model is never
\* longer than 15,000 characters.
C6_MessageWithinBudget ==
    \A r \in Requests : userMsg[r] # None => MessageLen(userMsg[r][1]) <= 15000

\* C6, amended: the page-content part of the user message is never longer
\* than 15,000 characters, and the whole user message content never longer
\* than 15,000 plus the 52 characters of its fixed instruction prefix.
C6_ContentWithinBudget ==
    \A r \in Requests :
        userMsg[r] # None =>
            /\ userMsg[r][1].content <= 15000
            /\ MessageLen(userMsg[r][1]) <= 15000 + 52

C6_Witness ==
    \E r \in Requests :
        /\ userMsg[r] # None
        /\ clean_html(page[r]) > 15000
        /\ userMsg[r][1].content = 15000

\* C7: when the fetch succeeds and the model returns the minimal recipe
\* (title, one named ingredient, one numbered step, no source_url), the
\* request ends with success=true and a recipe with that title, those
\* ingredients and steps, the requested URL as source_url, and empty
\* image_urls and tags.
C7_MinimalRecipeSucceeds ==
    \A r \in Requests :
        (/\ pc[r] = "Responding"
         /\ html[r] # None
         /\ outputs[r] # <<>>
         /\ \A k \in DOMAIN outputs[r] : outputs[r][k] = MinimalOutput
         /\ exc[r] # None => exc[r][1].type = "InstructorRetryException")
        => /\ Succeeded(r)
           /\ LET rec == response[r][1].recipe[1] IN
              /\ rec.title = "Cookies"
              /\ Len(rec.ingredients) = 1 /\ rec.ingredients[1].name = "flour"
              /\ Len(rec.steps) = 1
              /\ rec.steps[1].step_number = 1 /\ rec.steps[1].instruction = "Bake."
              /\ rec.source_url = url[r]
              /\ rec.image_urls = <<>> /\ rec.tags = <<>>

\* C8: the model call is re-issued only after an output that fails schema
\* validation, at most 2 more times (3 attempts in all); the request succeeds
\* as soon as one attempt validates; and only when all 3 attempts fail
\* validation does it end with success=false and the extraction error that
\* carries the validation diagnostic.
C8_BoundedReask ==
    \A r \in Requests :
        LET outs == outputs[r]
            n == Len(outs)
            exhausted == exc[r] # None /\ exc[r][1].type = "InstructorRetryException" IN
        /\ n <= 3
        /\ \A k \in 1..(n - 1) : ~Validate(outs[k])
        /\ (n > 0 /\ Validate(outs[n])) => pc[r] = "Responding" /\ Succeeded(r)
        /\ (n = 3 /\ ~Validate(outs[n])) => exhausted
        /\ exhausted =>
            /\ n = 3
            /\ \A k \in 1..n : ~Validate(outs[k])
            /\ Failed(r)
            /\ response[r][1].error =
                   Some([prefix |-> "Failed to extract recipe: ", msg |-> ValidationMsg(outs[n])])

C8_Witness ==
    \E r, q \in Requests :
        /\ Len(outputs[r]) = 3 /\ Succeeded(r)
        /\ Len(outputs[q]) = 3 /\ Failed(q) /\ exc[q][1].type = "InstructorRetryException"

\* C9: each request moves through Received, Fetching, Normalizing, Extracting,
\* Responding in that order: a stage is entered only from the one before it,
\* the page is fetched once, and the request ends in Responding and nowhere
\* else, for a success (after all stages) as for a failure (from the stage
\* that failed).
LinearPath(k) == SubSeq(Stages, 1, k)

C9_LinearStages ==
    \A r \in Requests :
        /\ pc[r] = Last(trace[r])
        /\ \/ \E k \in 1..Len(Stages) : trace[r] = LinearPath(k)
           \/ \E k \in 2..3 : trace[r] = Append(LinearPath(k), "Responding") /\ Failed(r)
        /\ Responded(r) <=> pc[r] = "Responding"
        /\ Succeeded(r) => trace[r] = Stages
        /\ Cardinality({k \in DOMAIN trace[r] : trace[r][k] = "Fetching"}) <= 1

C9_Witness ==
    \E r, q \in Requests :
        /\ trace[r] = Stages /\ Succeeded(r)
        /\ trace[q] = <<"Received", "Fetching", "Responding">> /\ Failed(q)

\* C10: under every interleaving, the response of a request is the one its
\* own URL, its own fetch result and its own model outputs determine, and a
\* step of one request changes nothing of another.
SoloResponse(u, fetched, raised, outs) ==
    IF raised # None
    THEN IF raised[1].type \in {"HTTPStatusError", "ConnectError"}
         THEN Some(FailureResponse(FetchPrefix, raised[1]))
         ELSE Some(FailureResponse(ExtractPrefix, raised[1]))
    ELSE IF fetched # None /\ outs # <<>> /\ Validate(Last(outs))
         THEN Some(SuccessResponse([Recipe(Last(outs)) EXCEPT !.source_url = u]))
         ELSE None

Local(r) == <<pc[r], url[r], page[r], html[r], userMsg[r], outputs[r], exc[r], response[r], trace[r]>>

C10_RequestsIndependent ==
    /\ [](\A r \in Requests : response[r] = SoloResponse(url[r], html[r], exc[r], outputs[r]))
    /\ [][\A r, q \in Requests : (r # q /\ Local(r)' # Local(r)) => Local(q)' = Local(q)]_vars

C10_Witness ==
    \E r, q \in Requests :
        /\ url[r] # url[q]
        /\ pc[r] = "Extracting" /\ outputs[r] # <<>>
        /\ Succeeded(q)
        /\ response[q][1].recipe[1].source_url = url[q]

====
